---- MODULE Spec2Model ----
(***************************************************************************)
(* State-machine model of the Tree-sitter MCP server: the manager          *)
(* (src/src/manager.ts), the auto-parse middleware (src/src/middleware.ts), *)
(* the tool handlers (src/src/tools/handlers.ts) and the request dispatch   *)
(* (src/src/index.ts).  The JavaScript event loop is modelled by its        *)
(* suspension points: a request runs synchronously up to an I/O await       *)
(* (Parser.init, Language.load, fs.readFile); steps of other requests may   *)
(* run while it is suspended.                                               *)
(***************************************************************************)
EXTENDS Integers, Sequences, FiniteSets, TLC

VARIABLES
  parser,      \* TreeSitterManager.parser: 0 (null) or the instance number
  parserSeq,   \* number of Parser instances constructed so far
  parserLang,  \* language last given to parser.setLanguage ("" before any)
  languages,   \* TreeSitterManager.languages: name -> 0 (absent) or grammar number
  loadCalls,   \* name -> number of Language.load calls started for that name
  loads,       \* Language.load calls in flight: records [lang, k, owner]
  trees,       \* TreeSitterManager.trees: absolute path -> tree or NoTree
  treeSeq,     \* number of trees produced by parser.parse so far
  slots,       \* the requests in flight, one record per slot
  dispatched,  \* number of requests received so far
  initDone,    \* history: some initializeParser call has completed
  loaded,      \* history: the languages some loadLanguage call has loaded
  doc,         \* the syntax tree the manager's query functions are applied to
  answer       \* the last call of a query function on doc, with its result

vars == <<parser, parserSeq, parserLang, languages, loadCalls, loads, trees,
          treeSeq, slots, dispatched, initDone, loaded, doc, answer>>

(***************************************************************************)
(* Bounds of the model.                                                    *)
(***************************************************************************)
MaxDispatch == 3
MaxConc == 2
MaxRow == 1
MaxCol == 8

Slots == 1..MaxConc

(***************************************************************************)
(* Values.                                                                 *)
(***************************************************************************)
NoArg == "<undefined>"
NoParser == 0
NoGrammar == 0
NoPath == [abs |-> FALSE, name |-> "", ext |-> ""]
NoTree == [id |-> 0, lang |-> "", gram |-> 0, content |-> ""]
NoContent == ""

\* The error messages thrown by the code.
E_Unknown == "Unknown tool"
E_Args == "parameters are required"
E_Languages == "The 'languages' parameter must be an array of strings."
E_NotParsed == "File not found or not parsed"
E_ParserNotInit == "Parser not initialized. Call initialize_treesitter_context first."
E_LangNotLoaded == "Language is not loaded. Call initialize_treesitter_context first."
E_ParseNull == "Failed to parse file. The parser returned null."
E_Load == "Could not load grammar"
\* the message of loadLanguage's error, which names the language
loadError(languageName) == E_Load \o " for '" \o languageName \o "'"
E_Read == "ENOENT"
E_Query == "QueryError"
E_Unsupported == "UnsupportedExtension"
\* the InvalidQuery error of the specification, which carries the query text
invalidQuery(query) == "InvalidQuery: " \o query

\* A path is a record: abs tells whether it is absolute, name and ext are the
\* base name and the extension.  The working directory is fixed.
Path(a, n, e) == [abs |-> a, name |-> n, ext |-> e]

\* Variant: the path is used as it was given.
resolve_Identity(p) == p

\* path.resolve: a relative path is joined to the working directory.
resolve(p) == [p EXCEPT !.abs = TRUE]

\* path.extname
extname(p) == p.ext

\* The files of the model's file system.
\* fs.readFile fails for a file outside Readable; for a readable file it
\* returns the content the file has at that moment, which is any of Contents
\* (files are edited behind the server's back).
Files ==
  {Path(TRUE, "a", ".ts"), Path(TRUE, "b", ".py"), Path(TRUE, "n", ".txt"),
   Path(TRUE, "gone", ".py")}
  \cup {Path(TRUE, "e", e) : e \in {".tsx", ".js", ".jsx", ".go", ".java"}}
Readable == Files \ {Path(TRUE, "gone", ".py")}
\* The strings a request can name a file by, which are the possible keys of
\* the tree cache: the absolute paths and a.ts relative to the working
\* directory.
Paths == Files \cup {Path(FALSE, "a", ".ts")}
Contents == {"c1", "c2"}

LangNames == {"typescript", "javascript", "python", "go", "java", "cobol"}
\* the grammars shipped in wasm/: Language.load succeeds exactly for these
HasArtifact == {"typescript", "javascript", "python", "go", "java"}

languageMap ==
  [e \in {".ts", ".tsx", ".js", ".jsx", ".py", ".go", ".java"} |->
     CASE e \in {".ts", ".tsx"} -> "typescript"
       [] e \in {".js", ".jsx"} -> "javascript"
       [] e = ".py" -> "python"
       [] e = ".go" -> "go"
       [] e = ".java" -> "java"]

\* Variant: the ".ts" entry is missing from the table.
inferLanguage_NoTs(extension) ==
  IF extension \in DOMAIN languageMap \ {".ts"} THEN languageMap[extension] ELSE NoArg

\* Variant: an extension outside the table is taken for TypeScript.
inferLanguage_DefaultTs(extension) ==
  IF extension \in DOMAIN languageMap THEN languageMap[extension] ELSE "typescript"

\* Variant: .tsx is taken for JavaScript, as .jsx is.
inferLanguage_TsxAsJs(extension) ==
  IF extension = ".tsx" THEN "javascript"
  ELSE IF extension \in DOMAIN languageMap THEN languageMap[extension] ELSE NoArg

\* languageMap[extension], undefined when the extension is not a key
inferLanguage(extension) ==
  IF extension \in DOMAIN languageMap THEN languageMap[extension] ELSE NoArg

\* toolSchemas: the names the tool listing returns
toolSchemas ==
  {"initialize_treesitter_context", "parse_file", "structural_code_search",
   "list_code_elements_by_kind", "get_contextual_code_snippets"}

\* Variant: parse_file has a handler too.
toolHandlers_WithParseFile ==
  {"initialize_treesitter_context", "parse_file", "structural_code_search",
   "list_code_elements_by_kind", "get_contextual_code_snippets",
   "validate_syntax_token_counts"}

\* toolHandlers: the names that have a handler
toolHandlers ==
  {"initialize_treesitter_context", "structural_code_search",
   "list_code_elements_by_kind", "get_contextual_code_snippets",
   "validate_syntax_token_counts"}

QueryTools ==
  {"structural_code_search", "list_code_elements_by_kind",
   "get_contextual_code_snippets"}

(***************************************************************************)
(* Syntax trees.                                                           *)
(***************************************************************************)
\* A syntax tree is its source text (a sequence of characters) and its
\* nodes in document order (pre-order).  A node has its type, the index of
\* its parent (0 for the root), whether it is named, the index of the child
\* in its "name" field (0 when it has none), and the columns where it starts
\* and ends; the text is on row 0.
Node(t, p, nm, f, a, b) ==
  [type |-> t, parent |-> p, isNamed |-> nm, nameField |-> f, start |-> a, end |-> b]

NoDoc == [content |-> <<>>, nodes |-> <<>>]

\* class C { a; b => }: a class with two methods, the second one holding an
\* arrow function
D_class ==
  [content |-> <<"C", "{", "a", ";", "b", ">", "}">>,
   nodes |-> <<Node("program", 0, TRUE, 0, 0, 7),
               Node("class_declaration", 1, TRUE, 3, 0, 7),
               Node("identifier", 2, TRUE, 0, 0, 1),
               Node("class_body", 2, TRUE, 0, 1, 7),
               Node("method_definition", 4, TRUE, 6, 2, 4),
               Node("identifier", 5, TRUE, 0, 2, 3),
               Node("method_definition", 4, TRUE, 8, 4, 6),
               Node("identifier", 7, TRUE, 0, 4, 5),
               Node("arrow_function", 7, TRUE, 0, 5, 6),
               Node("}", 4, FALSE, 0, 6, 7)>>]

\* function f { function g { } }: a function nested in a function
D_nested ==
  [content |-> <<"f", "{", "g", "{", "}", "}">>,
   nodes |-> <<Node("program", 0, TRUE, 0, 0, 6),
               Node("function_declaration", 1, TRUE, 3, 0, 6),
               Node("identifier", 2, TRUE, 0, 0, 1),
               Node("statement_block", 2, TRUE, 0, 1, 6),
               Node("function_declaration", 4, TRUE, 6, 2, 5),
               Node("identifier", 5, TRUE, 0, 2, 3),
               Node("statement_block", 5, TRUE, 0, 3, 5)>>]

\* x; y: two statements, no block
D_flat ==
  [content |-> <<"x", ";", "y">>,
   nodes |-> <<Node("program", 0, TRUE, 0, 0, 3),
               Node("expression_statement", 1, TRUE, 0, 0, 2),
               Node("identifier", 2, TRUE, 0, 0, 1),
               Node(";", 2, FALSE, 0, 1, 2),
               Node("expression_statement", 1, TRUE, 0, 2, 3),
               Node("identifier", 5, TRUE, 0, 2, 3)>>]

\* the empty file
D_empty ==
  [content |-> <<>>, nodes |-> <<Node("program", 0, TRUE, 0, 0, 0)>>]

\* x /t/: a statement and a comment, in a grammar whose comment node has a
\* named child for its content
D_comment ==
  [content |-> <<"x", "/", "t", "/">>,
   nodes |-> <<Node("program", 0, TRUE, 0, 0, 4),
               Node("expression_statement", 1, TRUE, 0, 0, 1),
               Node("identifier", 2, TRUE, 0, 0, 1),
               Node("comment", 1, TRUE, 0, 1, 4),
               Node("comment_content", 4, TRUE, 0, 2, 3)>>]

Docs == {D_class, D_nested, D_flat, D_empty, D_comment}

\* A position (Point) and the positions a snippet request may name.
Point(r, c) == [row |-> r, column |-> c]
Positions == {Point(r, c) : r \in 0..MaxRow, c \in 0..MaxCol}

\* node.text, node.startPosition, node.endPosition, node.parent
text(t, i) == SubSeq(t.content, t.nodes[i].start + 1, t.nodes[i].end)
startPosition(t, i) == Point(0, t.nodes[i].start)
endPosition(t, i) == Point(0, t.nodes[i].end)

\* the order of positions, and whether node i spans the position
pointLE(p, q) == p.row < q.row \/ (p.row = q.row /\ p.column <= q.column)
contains(t, i, pos) ==
  pointLE(startPosition(t, i), pos) /\ pointLE(pos, endPosition(t, i))

\* The queries of the model: the nodes of one type are matched; a match
\* captures the node under the name self and, when field is not "", the
\* child in the node's name field under the name field.
Q_methods == [type |-> "method_definition", self |-> "method", field |-> "name"]
Q_ids == [type |-> "identifier", self |-> "id", field |-> ""]
Q_enums == [type |-> "enum_declaration", self |-> "enum", field |-> ""]
Queries == {Q_methods, Q_ids, Q_enums}

\* The node types a list request may name.
Kinds ==
  {"method_definition", "function_declaration", "identifier", "arrow_function",
   "class_declaration", "enum_declaration"}

\* query.captures(tree.rootNode): the captures of the matches, match after
\* match in document order, from node i on.
RECURSIVE capturesFrom(_, _, _)
capturesFrom(t, q, i) ==
  IF i > Len(t.nodes) THEN <<>>
  ELSE (IF t.nodes[i].type # q.type THEN <<>>
        ELSE <<[name |-> q.self, node |-> i]>>
             \o (IF q.field # "" /\ t.nodes[i].nameField # 0
                 THEN <<[name |-> q.field, node |-> t.nodes[i].nameField]>>
                 ELSE <<>>))
       \o capturesFrom(t, q, i + 1)

captures(t, q) == capturesFrom(t, q, 1)

\* Variant: search reports one entry per match, for the matched node only.
search_OnePerMatch(t, q) ==
  LET matches == SelectSeq(captures(t, q), LAMBDA c : c.name = q.self)
  IN [k \in 1..Len(matches) |->
        [name |-> matches[k].name,
         text |-> text(t, matches[k].node),
         startPosition |-> startPosition(t, matches[k].node),
         endPosition |-> endPosition(t, matches[k].node)]]

\* TreeSitterManager.search on the tree t: the captures, mapped one by one.
search(t, q) ==
  LET matches == captures(t, q)
  IN [k \in 1..Len(matches) |->
        [name |-> matches[k].name,
         text |-> text(t, matches[k].node),
         startPosition |-> startPosition(t, matches[k].node),
         endPosition |-> endPosition(t, matches[k].node)]]

\* rootNode.descendantsOfType(nodeType): the nodes of that type, at any
\* depth, in document order.
descendantsOfType(t, nodeType) ==
  SelectSeq([i \in 1..Len(t.nodes) |-> i], LAMBDA i : t.nodes[i].type = nodeType)

Anonymous == <<"(anonymous)">>

\* The entry listElements makes of node i.
element(t, i) ==
  [name |-> IF t.nodes[i].nameField # 0 THEN text(t, t.nodes[i].nameField)
            ELSE Anonymous,
   type |-> t.nodes[i].type,
   text |-> text(t, i),
   startPosition |-> startPosition(t, i),
   endPosition |-> endPosition(t, i)]

\* Variant: listElements looks at the children of the root only.
listElements_TopLevel(t, nodeType) ==
  LET nodes == SelectSeq(descendantsOfType(t, nodeType),
                         LAMBDA i : t.nodes[i].parent <= 1)
  IN [k \in 1..Len(nodes) |-> element(t, nodes[k])]

\* TreeSitterManager.listElements on the tree t.
listElements(t, nodeType) ==
  LET nodes == descendantsOfType(t, nodeType)
  IN [k \in 1..Len(nodes) |-> element(t, nodes[k])]

\* The kinds of node getContextualSnippet stops at.
blockTypes ==
  {"function_declaration", "method_definition", "class_declaration",
   "arrow_function"}

\* rootNode.descendantForPosition(position), from node i down: the deepest
\* node that spans the position (the first one among siblings).
RECURSIVE descend(_, _, _)
descend(t, i, pos) ==
  LET below == {j \in 1..Len(t.nodes) : t.nodes[j].parent = i /\ contains(t, j, pos)}
  IN IF below = {} THEN i
     ELSE descend(t, CHOOSE j \in below : \A k \in below : j <= k, pos)

\* The node the engine finds at the position, 0 for null.  For a position
\* that the root does not span the engine gives null or, when it clamps the
\* position to the tree, the root.
descendantForPosition(t, pos, clamps) ==
  IF contains(t, 1, pos) THEN descend(t, 1, pos)
  ELSE IF clamps THEN 1 ELSE 0

\* Variant: the walk starts at the parent of the node found.
RECURSIVE walkUp_SkipStart(_, _)
walkUp_SkipStart(t, i) ==
  IF t.nodes[i].parent = 0 THEN i
  ELSE IF t.nodes[t.nodes[i].parent].type \in blockTypes THEN t.nodes[i].parent
  ELSE walkUp_SkipStart(t, t.nodes[i].parent)

\* The loop of getContextualSnippet: up the parent chain from node i while
\* the node has a parent and is no block.
RECURSIVE walkUp(_, _)
walkUp(t, i) ==
  IF t.nodes[i].parent # 0 /\ t.nodes[i].type \notin blockTypes
  THEN walkUp(t, t.nodes[i].parent)
  ELSE i

\* Variant: null is returned when the walk ends at a node that is no block.
snippetNode_BlockOnly(t, pos, clamps) ==
  IF descendantForPosition(t, pos, clamps) = 0 THEN 0
  ELSE IF t.nodes[walkUp(t, descendantForPosition(t, pos, clamps))].type \in blockTypes
  THEN walkUp(t, descendantForPosition(t, pos, clamps))
  ELSE 0

\* The node whose text getContextualSnippet returns, 0 when it returns null.
snippetNode(t, pos, clamps) ==
  IF descendantForPosition(t, pos, clamps) = 0 THEN 0
  ELSE walkUp(t, descendantForPosition(t, pos, clamps))

NoSnippet == [isNull |-> TRUE, text |-> <<>>]

\* TreeSitterManager.getContextualSnippet on the tree t: null or a text.
getContextualSnippet(t, pos, clamps) ==
  IF snippetNode(t, pos, clamps) = 0 THEN NoSnippet
  ELSE [isNull |-> FALSE, text |-> text(t, snippetNode(t, pos, clamps))]

Sentinel == <<"Could not find a contextual snippet for the given position.">>

\* The text of the getContextualSnippet handler's result: snippet || sentinel
\* (the empty string is falsy).
snippetText(snippet) ==
  IF snippet.isNull \/ snippet.text = <<>> THEN Sentinel ELSE snippet.text

NoAnswer == [op |-> "", arg |-> "", node |-> 0, snippet |-> NoSnippet, value |-> <<>>]

\* node.children: the children of node i, in order
children(t, i) ==
  SelectSeq([j \in 1..Len(t.nodes) |-> j], LAMBDA j : t.nodes[j].parent = i)

\* TreeSitterManager.serializeCstNode, on the children of node i that are
\* named or, when all is TRUE, on every child.
RECURSIVE serializeCst(_, _, _)
RECURSIVE serializeCstEach(_, _, _)
serializeCstEach(t, nodes, all) ==
  IF nodes = <<>> THEN <<>>
  ELSE <<serializeCst(t, Head(nodes), all)>> \o serializeCstEach(t, Tail(nodes), all)

serializeCst(t, i, all) ==
  [type |-> t.nodes[i].type,
   text |-> text(t, i),
   startPosition |-> startPosition(t, i),
   endPosition |-> endPosition(t, i),
   children |-> serializeCstEach(
     t, SelectSeq(children(t, i), LAMBDA j : all \/ t.nodes[j].isNamed), all)]

\* Variant: the unnamed children are not serialised.
serializeCstNode_NamedOnly(t, i) == serializeCst(t, i, FALSE)

\* TreeSitterManager.serializeCstNode
serializeCstNode(t, i) == serializeCst(t, i, TRUE)

NoName == <<"<undefined>">>

\* TreeSitterManager.buildAstNode: the empty sequence for null, else the one
\* node built; a node of a type in skipped, or an unnamed one, gives null,
\* and the null children are filtered out.  The children key is there only
\* when a child is left.
RECURSIVE buildAst(_, _, _)
RECURSIVE buildAstEach(_, _, _)
buildAstEach(t, nodes, skipped) ==
  IF nodes = <<>> THEN <<>>
  ELSE buildAst(t, Head(nodes), skipped) \o buildAstEach(t, Tail(nodes), skipped)

buildAst(t, i, skipped) ==
  IF t.nodes[i].type \in skipped \/ ~t.nodes[i].isNamed THEN <<>>
  ELSE LET kids == buildAstEach(t, children(t, i), skipped)
           node == [type |-> t.nodes[i].type,
                    name |-> IF t.nodes[i].nameField # 0
                             THEN text(t, t.nodes[i].nameField) ELSE NoName,
                    startPosition |-> startPosition(t, i),
                    endPosition |-> endPosition(t, i)]
       IN IF kids = <<>> THEN <<node>>
          ELSE <<[type |-> node.type, name |-> node.name,
                  startPosition |-> node.startPosition,
                  endPosition |-> node.endPosition, children |-> kids]>>

\* Variant: comments are kept in the thin tree.
buildAstNode_KeepComments(t, i) == buildAst(t, i, {})

\* TreeSitterManager.buildAstNode
buildAstNode(t, i) == buildAst(t, i, {"comment"})

\* TreeSitterManager.getSyntaxTreeAnalytics: the two serialisations (the
\* token counts are left out).
getSyntaxTreeAnalytics(t) ==
  [cst |-> serializeCstNode(t, 1), ast |-> buildAstNode(t, 1)]

(***************************************************************************)
(* The manager.                                                            *)
(***************************************************************************)
\* TreeSitterManager.isParsed
isParsed(tr, filePath) == tr[filePath] # NoTree

\* TreeSitterManager.getTree
getTree(tr, filePath) == tr[filePath]

\* Variant: parseFile does not check that the language is in the registry.
parseFileOutcome_NoLangCheck(languageName, yields) ==
  IF parser = NoParser THEN E_ParserNotInit
  ELSE IF ~yields THEN E_ParseNull
  ELSE "ok"

\* Variant: parseFile looks the language up before it asks for the parser.
parseFileOutcome_LangFirst(languageName, yields) ==
  IF languages[languageName] = NoGrammar THEN E_LangNotLoaded
  ELSE IF parser = NoParser THEN E_ParserNotInit
  ELSE IF ~yields THEN E_ParseNull
  ELSE "ok"

\* The error parseFile throws, or "ok".  yields tells whether parser.parse
\* returns a tree (it returns null only when the engine is in a bad state).
parseFileOutcome(languageName, yields) ==
  IF parser = NoParser THEN E_ParserNotInit
  ELSE IF languages[languageName] = NoGrammar THEN E_LangNotLoaded
  ELSE IF ~yields THEN E_ParseNull
  ELSE "ok"

\* Variant: the shared parser keeps the language it was first given.
setLanguage_Once(languageName) ==
  IF parserLang = "" THEN languageName ELSE parserLang

\* The language of the shared parser after parser.setLanguage(language).
setLanguage(languageName) == languageName

\* The tree parser.parse builds from content: its grammar is the one the
\* shared parser is set to when parse is called, which parseFile has just
\* set to the grammar of languageName.
newTree(languageName, content) ==
  [id |-> treeSeq + 1, lang |-> setLanguage(languageName),
   gram |-> languages[setLanguage(languageName)], content |-> content]

\* Variant: a failed parseFile removes the entry of the file.
parseFileTrees_DropOnFail(tr, languageName, filePath, content, yields) ==
  IF parseFileOutcome(languageName, yields) = "ok"
  THEN [tr EXCEPT ![filePath] = newTree(languageName, content)]
  ELSE [tr EXCEPT ![filePath] = NoTree]

\* Variant: parseFile stores the tree only when the file has no entry yet.
parseFileTrees_KeepOld(tr, languageName, filePath, content, yields) ==
  IF parseFileOutcome(languageName, yields) = "ok" /\ tr[filePath] = NoTree
  THEN [tr EXCEPT ![filePath] = newTree(languageName, content)]
  ELSE tr

\* The tree cache after parseFile(languageName, filePath, content).
parseFileTrees(tr, languageName, filePath, content, yields) ==
  IF parseFileOutcome(languageName, yields) = "ok"
  THEN [tr EXCEPT ![filePath] = newTree(languageName, content)]
  ELSE tr

\* The language of the shared parser after parseFile: setLanguage runs once
\* the parser and the grammar have been found.
parseFileParserLang(languageName, yields) ==
  IF parseFileOutcome(languageName, yields) \in {"ok", E_ParseNull}
  THEN setLanguage(languageName) ELSE parserLang

\* The effect of one parseFile call on the manager.
parseFile(languageName, filePath, content, yields) ==
  /\ trees' = parseFileTrees(trees, languageName, filePath, content, yields)
  /\ treeSeq' = IF parseFileOutcome(languageName, yields) = "ok"
                THEN treeSeq + 1 ELSE treeSeq
  /\ parserLang' = parseFileParserLang(languageName, yields)

\* A step that calls parseFile not at all.
noParseFile == UNCHANGED <<trees, treeSeq, parserLang>>

(***************************************************************************)
(* Requests.                                                               *)
(***************************************************************************)
\* A request slot.  tool, path, arg, language, langs, hasLangs are the
\* request; pc is the await the request is suspended at; outcome is "ok" or
\* the error the request fails with; used is the tree the handler worked on;
\* qlang is the language whose grammar compiled the query of a search.
\* tree0 and lang0 record what the request met when it arrived (the cache
\* entry of its file, whether the language of the file's extension was
\* loaded); reads and parses count its fs.readFile and parseFile calls; mwErr
\* is the error ensureFileIsParsed caught; content is the text last read.
Idle ==
  [pc |-> "idle", tool |-> "", path |-> NoPath, arg |-> NoArg,
   language |-> NoArg, langs |-> <<>>, hasLangs |-> FALSE,
   outcome |-> "", used |-> NoTree, qlang |-> "", content |-> NoContent,
   tree0 |-> NoTree, lang0 |-> FALSE, reads |-> 0, parses |-> 0, mwErr |-> "",
   events |-> 0, status |-> "", tokens |-> 0]

\* The requests a client can send (the arguments are drawn from small sets).
Request(t, p, a, l, ls, h) ==
  [tool |-> t, path |-> p, arg |-> a, language |-> l, langs |-> ls, hasLangs |-> h]

F_a == Path(TRUE, "a", ".ts")
F_b == Path(TRUE, "b", ".py")
F_n == Path(TRUE, "n", ".txt")
F_gone == Path(TRUE, "gone", ".py")
\* a.ts named relative to the working directory: another string for F_a
R_a == Path(FALSE, "a", ".ts")

LangLists == {<<"typescript">>, <<"cobol">>}

InitRequests ==
  {Request("initialize_treesitter_context", NoPath, NoArg, NoArg, ls, TRUE) :
     ls \in LangLists}
  \cup {Request("initialize_treesitter_context", NoPath, NoArg, NoArg, <<>>, FALSE)}

SearchRequests ==
  {Request("structural_code_search", p, "ok", NoArg, <<>>, FALSE) :
     p \in {F_a, F_b, F_n, F_gone}}
  \cup {Request("structural_code_search", F_a, NoArg, NoArg, <<>>, FALSE)}

ListRequests ==
  {Request("list_code_elements_by_kind", F_a, "ok", NoArg, <<>>, FALSE)}

SnippetRequests ==
  {Request("get_contextual_code_snippets", F_a, "ok", NoArg, <<>>, FALSE)}

AnalyzeRequests ==
  {Request("validate_syntax_token_counts", F_a, NoArg, l, <<>>, FALSE) :
     l \in {"typescript"}}

OtherRequests ==
  {Request("parse_file", F_a, NoArg, "typescript", <<>>, FALSE)}

Requests ==
  InitRequests \cup SearchRequests \cup ListRequests \cup SnippetRequests
  \cup AnalyzeRequests \cup OtherRequests

\* Searches of two files of different languages, with a query that only the
\* TypeScript grammar compiles and with a malformed query.
FileRequests ==
  {Request("structural_code_search", p, q, NoArg, <<>>, FALSE) :
     p \in {F_a, F_b}, q \in {"ts", "bad"}}
  \cup {Request("structural_code_search", R_a, "ts", NoArg, <<>>, FALSE)}

\* Variant: initializeContext takes a languages argument that is missing or
\* no array for the empty list.
argsOk_InitLenient(r) ==
  CASE r.tool = "initialize_treesitter_context" -> TRUE
    [] r.tool \in QueryTools -> r.path # NoPath /\ r.arg # NoArg
    [] r.tool = "validate_syntax_token_counts" ->
         r.language # NoArg /\ r.path # NoPath
    [] OTHER -> FALSE

\* The argument check at the head of each handler.
argsOk(r) ==
  CASE r.tool = "initialize_treesitter_context" -> r.hasLangs
    [] r.tool \in QueryTools -> r.path # NoPath /\ r.arg # NoArg
    [] r.tool = "validate_syntax_token_counts" ->
         r.language # NoArg /\ r.path # NoPath
    [] OTHER -> FALSE

\* The error of the argument check.
argsError(r) ==
  IF r.tool = "initialize_treesitter_context" THEN E_Languages ELSE E_Args

\* Variant: the query is compiled by the grammar the shared parser is set to.
queryLanguage_Parser(tree, pl) == pl

\* manager.search compiles the query with tree.language, the grammar of the
\* tree; pl is the language the shared parser is set to at that moment.
queryLanguage(tree, pl) == tree.lang

\* The queries of the model: for each, the languages whose grammar compiles
\* it ("bad" is malformed for every grammar, "ts" names a node type that
\* only the TypeScript grammar has).
Compiles(query) ==
  CASE query = "ok" -> LangNames
    [] query = "ts" -> {"typescript"}
    [] OTHER -> {}

\* manager.search / listElements / getContextualSnippet on the cache tr:
\* the error thrown, or "ok".  pl is the language of the shared parser.
queryOutcome(r, tr, pl) ==
  IF getTree(tr, resolve(r.path)) = NoTree THEN E_NotParsed
  ELSE IF /\ r.tool = "structural_code_search"
          /\ queryLanguage(getTree(tr, resolve(r.path)), pl) \notin Compiles(r.arg)
       THEN E_Query
  ELSE "ok"

\* structuralSearch, listElements, getContextualSnippet: the handlers of the
\* query tools, which run without awaiting.
queryHandler(r, tr, pl) ==
  IF ~argsOk(r) THEN [r EXCEPT !.pc = "done", !.outcome = argsError(r)]
  ELSE IF getTree(tr, resolve(r.path)) = NoTree
  THEN [r EXCEPT !.pc = "done", !.outcome = queryOutcome(r, tr, pl)]
  ELSE [r EXCEPT !.pc = "done", !.outcome = queryOutcome(r, tr, pl),
                 !.used = getTree(tr, resolve(r.path)),
                 !.qlang = IF r.tool = "structural_code_search"
                           THEN queryLanguage(getTree(tr, resolve(r.path)), pl)
                           ELSE ""]

\* Variant: ensureFileIsParsed does not look into the cache.
ensureFileIsParsedStart_NoCacheCheck(r, tr) ==
  IF r.path = NoPath THEN "return"
  ELSE IF inferLanguage(extname(resolve(r.path))) = NoArg THEN "return"
  ELSE "read"

\* What ensureFileIsParsed does before its first await: "return" (no path, a
\* cached file or an extension outside languageMap) or "read" (fs.readFile).
ensureFileIsParsedStart(r, tr) ==
  IF r.path = NoPath THEN "return"
  ELSE IF isParsed(tr, resolve(r.path)) THEN "return"
  ELSE IF inferLanguage(extname(resolve(r.path))) = NoArg THEN "return"
  ELSE "read"

\* The Language.load calls that initializeContext starts for its list: one
\* per list entry whose language is not in the registry when the list is
\* mapped (all the loadLanguage calls run up to their await in one go).
newLoads(s, langs) ==
  {[lang |-> langs[i],
    k |-> loadCalls[langs[i]] + Cardinality({j \in 1..i : langs[j] = langs[i]}),
    owner |-> s] :
     i \in {n \in 1..Len(langs) : languages[langs[n]] = NoGrammar}}

\* Variant: the request waits for a load even when it has started none.
loadsStarted_AlwaysWait(s, r) ==
  [slot |-> [r EXCEPT !.pc = "loadWait"], loads |-> newLoads(s, r.langs)]

\* initializeContext from Promise.all on: the slot waits for its loads, or
\* is done when there is none to wait for.
loadsStarted(s, r) ==
  [slot |-> IF newLoads(s, r.langs) = {}
            THEN [r EXCEPT !.pc = "done", !.outcome = "ok"]
            ELSE [r EXCEPT !.pc = "loadWait"],
   loads |-> newLoads(s, r.langs)]

\* The content of the result of a completed request, as the tokens of its
\* text: the confirmation that names the languages, or what was computed from
\* the tree.
resultContent(r) ==
  IF r.tool = "initialize_treesitter_context" THEN <<"initialized">> \o r.langs
  ELSE <<r.tool, r.used.content>>

\* countTokens: the number of tokens of the content, 0 when there is none
countTokens(content) == Len(content)

\* logToolUsageMiddleware, once the wrapped function has settled for the
\* request r: one usage event, with status 'success' and the token count of
\* the result when it returned, with status 'error' and the count 0 when it
\* threw; the result or the error goes on to the caller as it is.
logToolUsageMiddleware(r) ==
  IF r.pc # "done" THEN r
  ELSE [r EXCEPT !.events = @ + 1,
                 !.status = IF r.outcome = "ok" THEN "success" ELSE "error",
                 !.tokens = IF r.outcome = "ok" THEN countTokens(resultContent(r)) ELSE 0]

\* Variant: the handler is called without the usage middleware around it.
wrappedHandler_Bare(r) == r

\* wrappedHandler: ensureFileIsParsed and the handler, inside
\* logToolUsageMiddleware; r is the request as they leave it.
wrappedHandler(r) == logToolUsageMiddleware(r)

\* A handler from its call up to its first await, on the cache tr.
handlerStart(s, r, tr, pl) ==
  IF r.tool \in QueryTools
  THEN [slot |-> wrappedHandler(queryHandler(r, tr, pl)), loads |-> {}]
  ELSE IF ~argsOk(r)
  THEN [slot |-> wrappedHandler([r EXCEPT !.pc = "done", !.outcome = argsError(r)]),
        loads |-> {}]
  ELSE IF r.tool = "validate_syntax_token_counts"
  THEN [slot |-> [r EXCEPT !.pc = "anRead", !.reads = @ + 1], loads |-> {}]
  ELSE IF parser # NoParser
  THEN [slot |-> wrappedHandler(loadsStarted(s, r).slot), loads |-> loadsStarted(s, r).loads]
  ELSE [slot |-> [r EXCEPT !.pc = "initWait"], loads |-> {}]

\* The registry of calls in flight after a handler step that started hs.loads.
startLoads(hs) ==
  /\ loads' = loads \cup hs.loads
  /\ loadCalls' = [l \in LangNames |->
                     loadCalls[l] + Cardinality({ld \in hs.loads : ld.lang = l})]

(***************************************************************************)
(* Actions.                                                                *)
(***************************************************************************)
TypeOK ==
  /\ parser \in 0..parserSeq
  /\ dispatched \in 0..MaxDispatch
  /\ \A s \in Slots : slots[s].pc \in
       {"idle", "mwRead", "initWait", "loadWait", "anRead", "done"}

Init ==
  /\ parser = NoParser
  /\ parserSeq = 0
  /\ parserLang = ""
  /\ languages = [l \in LangNames |-> NoGrammar]
  /\ loadCalls = [l \in LangNames |-> 0]
  /\ loads = {}
  /\ trees = [f \in Paths |-> NoTree]
  /\ treeSeq = 0
  /\ slots = [s \in Slots |-> Idle]
  /\ dispatched = 0
  /\ initDone = FALSE
  /\ loaded = {}
  /\ doc = NoDoc
  /\ answer = NoAnswer

\* The slots once the results of the finished requests have been sent: a
\* result or failure is returned to the client as soon as its handler has
\* completed, so it is in its slot for one state only.
sent(sl) == [o \in Slots |-> IF sl[o].pc = "done" THEN Idle ELSE sl[o]]

\* The CallTool request handler of createServer, up to the first await: the
\* handler lookup, then ensureFileIsParsed, then the tool's handler.  The
\* request takes the first slot that holds no request in flight.
Dispatch(s, req) ==
  /\ slots[s].pc \in {"idle", "done"}
  /\ \A o \in Slots : o < s => slots[o].pc \notin {"idle", "done"}
  /\ dispatched < MaxDispatch
  /\ dispatched' = dispatched + 1
  /\ LET r == [Idle EXCEPT !.tool = req.tool, !.path = req.path, !.arg = req.arg,
                           !.language = req.language, !.langs = req.langs,
                           !.hasLangs = req.hasLangs,
                           !.tree0 = IF req.path = NoPath THEN NoTree
                                     ELSE getTree(trees, resolve(req.path)),
                           !.lang0 = /\ req.path # NoPath
                                     /\ extname(resolve(req.path)) \in DOMAIN languageMap
                                     /\ languages[languageMap[extname(resolve(req.path))]] # NoGrammar]
     IN IF req.tool \notin toolHandlers
        THEN /\ slots' = [sent(slots) EXCEPT ![s] = [r EXCEPT !.pc = "done", !.outcome = E_Unknown]]
             /\ UNCHANGED <<loads, loadCalls>>
        ELSE IF ensureFileIsParsedStart(r, trees) = "read"
        THEN /\ slots' = [sent(slots) EXCEPT ![s] = [r EXCEPT !.pc = "mwRead", !.reads = @ + 1]]
             /\ UNCHANGED <<loads, loadCalls>>
        ELSE /\ slots' = [sent(slots) EXCEPT ![s] = handlerStart(s, r, trees, parserLang).slot]
             /\ startLoads(handlerStart(s, r, trees, parserLang))
  /\ noParseFile
  /\ UNCHANGED <<parser, parserSeq, languages, initDone, loaded, doc, answer>>

\* ensureFileIsParsed resumes after fs.readFile: a failed read is caught and
\* logged; otherwise parseFile runs, and what it throws is caught and logged
\* too.  The tool's handler is called next, whatever happened.
MwReadDone(s, content, yields) ==
  /\ slots[s].pc = "mwRead"
  /\ LET r == slots[s]
         f == resolve(r.path)
         language == inferLanguage(extname(f))
     IN IF f \notin Readable
        THEN /\ noParseFile
             /\ slots' = [sent(slots) EXCEPT ![s] =
                  handlerStart(s, [r EXCEPT !.mwErr = E_Read], trees, parserLang).slot]
             /\ startLoads(handlerStart(s, [r EXCEPT !.mwErr = E_Read], trees, parserLang))
        ELSE LET r1 == [r EXCEPT !.parses = @ + 1, !.content = content,
                                 !.mwErr = IF parseFileOutcome(language, yields) = "ok"
                                           THEN "" ELSE parseFileOutcome(language, yields)]
                 tr1 == parseFileTrees(trees, language, f, content, yields)
                 pl1 == parseFileParserLang(language, yields)
             IN /\ parseFile(language, f, content, yields)
                /\ slots' = [sent(slots) EXCEPT ![s] = handlerStart(s, r1, tr1, pl1).slot]
                /\ startLoads(handlerStart(s, r1, tr1, pl1))
  /\ UNCHANGED <<parser, parserSeq, languages, dispatched, initDone, loaded, doc, answer>>

\* initializeParser resumes after Parser.init(): a new Parser is installed,
\* then initializeContext starts the loads of its list.
InitParserDone(s) ==
  /\ slots[s].pc = "initWait"
  /\ parser' = parserSeq + 1
  /\ parserSeq' = parserSeq + 1
  /\ slots' = [sent(slots) EXCEPT ![s] = wrappedHandler(loadsStarted(s, slots[s]).slot)]
  /\ startLoads(loadsStarted(s, slots[s]))
  /\ initDone' = TRUE
  /\ noParseFile
  /\ UNCHANGED <<languages, dispatched, loaded, doc, answer>>

\* Variant: the request completes with its first load that succeeds.
afterLoad_FirstDone(r, ld, remaining) ==
  IF ld.lang \notin HasArtifact
  THEN [r EXCEPT !.pc = "done", !.outcome = loadError(ld.lang)]
  ELSE [r EXCEPT !.pc = "done", !.outcome = "ok"]

\* The slot of an initialize request after one of its loads has completed.
afterLoad(r, ld, remaining) ==
  IF ld.lang \notin HasArtifact
  THEN [r EXCEPT !.pc = "done", !.outcome = loadError(ld.lang)]
  ELSE IF \E o \in remaining : o.owner = ld.owner THEN r
  ELSE [r EXCEPT !.pc = "done", !.outcome = "ok"]

\* Variant: a failed load empties the registry.
loadLanguageDone_Rollback(reg, ld) ==
  IF ld.lang \in HasArtifact THEN [reg EXCEPT ![ld.lang] = ld.k]
  ELSE [l \in LangNames |-> NoGrammar]

\* Variant: the registry gets an entry although Language.load has failed.
loadLanguageDone_RegisterFailed(reg, ld) == [reg EXCEPT ![ld.lang] = ld.k]

\* The registry after Language.load has returned for ld: the grammar is set
\* when the load succeeded.
loadLanguageDone(reg, ld) ==
  IF ld.lang \in HasArtifact THEN [reg EXCEPT ![ld.lang] = ld.k] ELSE reg

\* loadLanguage resumes after Language.load.  Promise.all rejects on the
\* first failed load: the request fails at once and its other loads go on
\* without it (owner 0).
LoadDone(ld) ==
  /\ ld \in loads
  /\ languages' = loadLanguageDone(languages, ld)
  /\ loads' = IF ld.lang \in HasArtifact THEN loads \ {ld}
              ELSE {IF o.owner = ld.owner THEN [o EXCEPT !.owner = 0] ELSE o :
                      o \in loads \ {ld}}
  /\ slots' = IF ld.owner = 0 THEN sent(slots)
              ELSE [sent(slots) EXCEPT ![ld.owner] =
                      wrappedHandler(afterLoad(@, ld, loads \ {ld}))]
  /\ loaded' = IF ld.lang \in HasArtifact THEN loaded \cup {ld.lang} ELSE loaded
  /\ noParseFile
  /\ UNCHANGED <<parser, parserSeq, loadCalls, dispatched, initDone, doc, answer>>

\* Variant: the language of the file's extension comes first, the language
\* argument only when the extension is not in the table.
analyzeLanguage_ExtensionFirst(r) ==
  IF extname(resolve(r.path)) \in DOMAIN languageMap
  THEN languageMap[extname(resolve(r.path))]
  ELSE r.language

\* The language validateSyntaxTokenCounts hands to parseFile: the language
\* argument of the request.
analyzeLanguage(r) == r.language

\* Variant: the analytics are taken from the cache as it was before the
\* request's own parseFile call.
analyticsTrees_Stale(tr, languageName, filePath, content, yields) == tr

\* The cache getSyntaxTreeAnalytics reads in validateSyntaxTokenCounts: the
\* one the parseFile call of the line before has left, nothing awaited in
\* between.
analyticsTrees(tr, languageName, filePath, content, yields) ==
  parseFileTrees(tr, languageName, filePath, content, yields)

\* validateSyntaxTokenCounts resumes after fs.readFile: a failed read fails
\* the request; otherwise parseFile runs with the language of the request
\* and getSyntaxTreeAnalytics serialises the cached tree of the file.
AnReadDone(s, content, yields) ==
  /\ slots[s].pc = "anRead"
  /\ LET r == slots[s]
         f == resolve(r.path)
     IN IF f \notin Readable
        THEN /\ noParseFile
             /\ slots' = [sent(slots) EXCEPT ![s] =
                  wrappedHandler([r EXCEPT !.pc = "done", !.outcome = E_Read])]
        ELSE /\ parseFile(analyzeLanguage(r), f, content, yields)
             /\ slots' = [sent(slots) EXCEPT ![s] = wrappedHandler(
                  [r EXCEPT !.pc = "done", !.parses = @ + 1,
                            !.content = content,
                            !.outcome = parseFileOutcome(analyzeLanguage(r), yields),
                            !.used = IF parseFileOutcome(analyzeLanguage(r), yields) = "ok"
                                     THEN getTree(analyticsTrees(trees, analyzeLanguage(r), f, content, yields), f)
                                     ELSE NoTree])]
  /\ UNCHANGED <<parser, parserSeq, languages, loadCalls, loads, dispatched,
                 initDone, loaded, doc, answer>>

Next ==
  \/ \E s \in Slots, req \in Requests : Dispatch(s, req)
  \/ \E s \in Slots, content \in Contents, yields \in BOOLEAN : MwReadDone(s, content, yields)
  \/ \E s \in Slots : InitParserDone(s)
  \/ \E ld \in loads : LoadDone(ld)
  \/ \E s \in Slots, content \in Contents, yields \in BOOLEAN : AnReadDone(s, content, yields)

Spec == Init /\ [][Next]_vars

\* The server after an initialize request for TypeScript and Python has
\* completed: the parser is there and both grammars are registered.
InitLoaded ==
  /\ parser = 1
  /\ parserSeq = 1
  /\ parserLang = ""
  /\ languages = [l \in LangNames |->
                    IF l \in {"typescript", "python"} THEN 1 ELSE NoGrammar]
  /\ loadCalls = [l \in LangNames |->
                    IF l \in {"typescript", "python"} THEN 1 ELSE 0]
  /\ loads = {}
  /\ trees = [f \in Paths |-> NoTree]
  /\ treeSeq = 0
  /\ slots = [s \in Slots |-> Idle]
  /\ dispatched = 0
  /\ initDone = TRUE
  /\ loaded = {"typescript", "python"}
  /\ doc = NoDoc
  /\ answer = NoAnswer

\* The initialised server under searches of two files.
NextFiles ==
  \/ \E s \in Slots, req \in FileRequests : Dispatch(s, req)
  \/ \E s \in Slots, content \in Contents, yields \in BOOLEAN : MwReadDone(s, content, yields)

SpecFiles == InitLoaded /\ [][NextFiles]_vars

\* The server under requests of every kind that awaits something, where
\* each await returns in the end: Parser.init(), each Language.load and
\* each fs.readFile is a promise of the runtime, which settles it once the
\* work is done; a step that stays possible is taken.
LiveRequests ==
  {Request("initialize_treesitter_context", NoPath, NoArg, NoArg, <<"typescript">>, TRUE),
   Request("validate_syntax_token_counts", F_a, NoArg, "typescript", <<>>, FALSE)}

\* (the files are not edited here: each read returns "c1")
NextLive ==
  \/ \E s \in Slots, req \in LiveRequests : Dispatch(s, req)
  \/ \E s \in Slots, yields \in BOOLEAN : MwReadDone(s, "c1", yields)
  \/ \E s \in Slots : InitParserDone(s)
  \/ \E ld \in loads : LoadDone(ld)
  \/ \E s \in Slots, yields \in BOOLEAN : AnReadDone(s, "c1", yields)

Returns ==
  \A s \in Slots :
    /\ WF_vars(\E yields \in BOOLEAN : MwReadDone(s, "c1", yields))
    /\ WF_vars(InitParserDone(s))
    /\ WF_vars(\E ld \in loads : ld.owner = s /\ LoadDone(ld))
    /\ WF_vars(\E yields \in BOOLEAN : AnReadDone(s, "c1", yields))

SpecLive == Init /\ [][NextLive]_vars /\ Returns

\* The server after an initialize request for the five languages that have
\* a grammar has completed.
InitAll ==
  /\ parser = 1
  /\ parserSeq = 1
  /\ parserLang = ""
  /\ languages = [l \in LangNames |-> IF l \in HasArtifact THEN 1 ELSE NoGrammar]
  /\ loadCalls = [l \in LangNames |-> IF l \in HasArtifact THEN 1 ELSE 0]
  /\ loads = {}
  /\ trees = [f \in Paths |-> NoTree]
  /\ treeSeq = 0
  /\ slots = [s \in Slots |-> Idle]
  /\ dispatched = 0
  /\ initDone = TRUE
  /\ loaded = HasArtifact
  /\ doc = NoDoc
  /\ answer = NoAnswer

\* Searches of one file per extension of languageMap.
ExtensionRequests ==
  {Request("structural_code_search", p, "ok", NoArg, <<>>, FALSE) :
     p \in {f \in Readable : extname(f) \in DOMAIN languageMap}}

\* (the files are not edited here: each read returns "c1")
NextExtensions ==
  \/ \E s \in Slots, req \in ExtensionRequests : Dispatch(s, req)
  \/ \E s \in Slots, yields \in BOOLEAN : MwReadDone(s, "c1", yields)

SpecExtensions == InitAll /\ [][NextExtensions]_vars

\* The initialize requests of a client: with the empty list, with two
\* languages that have a grammar, with one that has none, without the
\* languages argument, and with a string in its place (hasLangs is
\* Array.isArray(languages), langs what the argument holds).
InitListRequests ==
  {Request("initialize_treesitter_context", NoPath, NoArg, NoArg, ls, TRUE) :
     ls \in {<<>>, <<"typescript", "python">>, <<"typescript", "cobol">>}}
  \cup {Request("initialize_treesitter_context", NoPath, NoArg, NoArg, ls, FALSE) :
          ls \in {<<>>, <<"typescript">>}}

NextInit ==
  \/ \E s \in Slots, req \in InitListRequests : Dispatch(s, req)
  \/ \E s \in Slots : InitParserDone(s)
  \/ \E ld \in loads : LoadDone(ld)

SpecInit == Init /\ [][NextInit]_vars

\* The analyze requests of a client whose grammars are loaded, on a file
\* whose extension maps to another language than the one asked for and on a
\* file whose extension maps to none.
AnalyzeFileRequests ==
  {Request("validate_syntax_token_counts", F_a, NoArg, "python", <<>>, FALSE),
   Request("validate_syntax_token_counts", F_n, NoArg, "typescript", <<>>, FALSE)}

NextAnalyze ==
  \/ \E s \in Slots, req \in AnalyzeFileRequests : Dispatch(s, req)
  \/ \E s \in Slots, content \in Contents, yields \in BOOLEAN : MwReadDone(s, content, yields)
  \/ \E s \in Slots, content \in Contents, yields \in BOOLEAN : AnReadDone(s, content, yields)

SpecAnalyze == InitLoaded /\ [][NextAnalyze]_vars

(***************************************************************************)
(* The query functions of the manager on one parsed tree.                  *)
(***************************************************************************)
server ==
  <<parser, parserSeq, parserLang, languages, loadCalls, loads, trees,
    treeSeq, slots, dispatched, initDone, loaded>>

\* A tree has been parsed; the query functions are applied to it.
InitTree ==
  /\ parser = NoParser
  /\ parserSeq = 0
  /\ parserLang = ""
  /\ languages = [l \in LangNames |-> NoGrammar]
  /\ loadCalls = [l \in LangNames |-> 0]
  /\ loads = {}
  /\ trees = [f \in Paths |-> NoTree]
  /\ treeSeq = 0
  /\ slots = [s \in Slots |-> Idle]
  /\ dispatched = 0
  /\ initDone = FALSE
  /\ loaded = {}
  /\ doc \in Docs
  /\ answer = NoAnswer

\* manager.search(file, query)
CallSearch(q) ==
  /\ answer' = [NoAnswer EXCEPT !.op = "search", !.arg = q, !.value = search(doc, q)]
  /\ UNCHANGED <<server, doc>>

\* manager.listElements(file, nodeType)
CallListElements(nodeType) ==
  /\ answer' = [NoAnswer EXCEPT !.op = "list", !.arg = nodeType,
                                !.value = listElements(doc, nodeType)]
  /\ UNCHANGED <<server, doc>>

\* the getContextualSnippet handler: manager.getContextualSnippet(file,
\* position), then the text of the result
CallSnippet(pos, clamps) ==
  /\ answer' = [NoAnswer EXCEPT
                  !.op = "snippet", !.arg = pos,
                  !.node = descendantForPosition(doc, pos, clamps),
                  !.snippet = getContextualSnippet(doc, pos, clamps),
                  !.value = snippetText(getContextualSnippet(doc, pos, clamps))]
  /\ UNCHANGED <<server, doc>>

\* manager.getSyntaxTreeAnalytics(file, content)
CallAnalytics ==
  /\ answer' = [NoAnswer EXCEPT !.op = "analyze", !.value = getSyntaxTreeAnalytics(doc)]
  /\ UNCHANGED <<server, doc>>

NextTree ==
  \/ CallAnalytics
  \/ \E q \in Queries : CallSearch(q)
  \/ \E nodeType \in Kinds : CallListElements(nodeType)
  \/ \E pos \in Positions, clamps \in BOOLEAN : CallSnippet(pos, clamps)

SpecTree == InitTree /\ [][NextTree]_vars

(***************************************************************************)
(* Vocabulary of the properties.                                           *)
(***************************************************************************)
AnalyzeTool == "validate_syntax_token_counts"

\* the file a request names
File(r) == resolve(r.path)

\* slot s holds no request in flight
Free(s) == slots[s].pc \in {"idle", "done"}

\* this step is the arrival of a request, which goes to slot s
Arrives(s) ==
  /\ dispatched' = dispatched + 1
  /\ Free(s)
  /\ \A o \in Slots : o < s => ~Free(o)

\* this step resumes the request of slot s after the file read it awaits
ReadReturns(s) ==
  /\ slots[s].pc \in {"mwRead", "anRead"}
  /\ slots'[s] # slots[s]

\* this step calls parseFile for the request of slot s
ParseFileCalled(s) ==
  /\ ReadReturns(s)
  /\ slots'[s].parses = slots[s].parses + 1

\* the language that call is given: the one inferred from the extension in
\* ensureFileIsParsed, the one of the request in validateSyntaxTokenCounts
ParseLanguage(s) ==
  IF slots[s].pc = "mwRead" THEN languageMap[extname(File(slots[s]))]
  ELSE slots[s].language

\* the error raised while the file was read and parsed in this step ("" or
\* "ok" when there was none)
ResolveError(s) ==
  IF slots[s].pc = "mwRead" THEN slots'[s].mwErr ELSE slots'[s].outcome

ResolveFailed(s) == ResolveError(s) \notin {"", "ok"}

InitTool == "initialize_treesitter_context"

\* this step is the return of the Language.load call ld
LoadReturns(ld) ==
  /\ ld \in loads
  /\ ~\E o \in loads' : o.lang = ld.lang /\ o.k = ld.k

\* this step takes the initialize request of slot s to its loadLanguage calls
StartsLoads(s) ==
  /\ slots'[s].tool = InitTool
  /\ argsOk(slots'[s])
  /\ \/ Arrives(s) /\ parser # NoParser
     \/ slots[s].pc = "initWait" /\ slots'[s].pc # "initWait"

(***************************************************************************)
(* C1.  Cache hit.                                                         *)
(***************************************************************************)
\* C1 (as stated): for search, list-elements, snippet-at and analyze, a
\* request whose file is cached when it arrives performs no file read and no
\* re-parse.
C1_Original ==
  \A s \in Slots :
    (slots[s].tool \in QueryTools \cup {AnalyzeTool} /\ slots[s].tree0 # NoTree)
      => slots[s].reads = 0 /\ slots[s].parses = 0

\* C1 (amended): a search, list-elements or snippet-at request whose file is
\* cached when it arrives completes at once on the cached tree: no file read,
\* no parseFile call, no grammar load, the cache unchanged, and the tree used
\* is the cached one.  An analyze request does not take this path: it leaves
\* the cache alone on arrival but starts a file read (and re-parses later).
C1_CacheHit ==
  [][\A s \in Slots :
       (/\ Arrives(s)
        /\ slots'[s].path # NoPath
        /\ slots'[s].tool \in QueryTools \cup {AnalyzeTool}
        /\ isParsed(trees, File(slots'[s])))
       => /\ trees' = trees
          /\ loadCalls' = loadCalls
          /\ slots'[s].parses = 0
          /\ slots'[s].tool \in QueryTools =>
               /\ slots'[s].pc = "done"
               /\ slots'[s].reads = 0
               /\ argsOk(slots'[s]) =>
                    /\ slots'[s].outcome \in {"ok", E_Query}
                    /\ slots'[s].outcome = "ok" =>
                         slots'[s].used = getTree(trees, File(slots'[s]))
          /\ (slots'[s].tool = AnalyzeTool /\ argsOk(slots'[s])) =>
               /\ slots'[s].pc = "anRead"
               /\ slots'[s].reads = 1]_vars

\* A query request has been served from the cache.
C1_Witness ==
  \E s \in Slots :
    /\ slots[s].pc = "done"
    /\ slots[s].tool \in QueryTools
    /\ slots[s].tree0 # NoTree
    /\ slots[s].outcome = "ok"
    /\ slots[s].reads = 0
    /\ slots[s].used = slots[s].tree0

(***************************************************************************)
(* C2.  Auto-parse on the first request.                                   *)
(***************************************************************************)
\* C2: a search, list-elements or snippet-at request that names a readable
\* file which was not cached, and whose extension maps to a language that was
\* loaded when the request arrived, is answered after exactly one read and
\* one parse of the file: it does not fail as "not parsed", and the file is in
\* the cache afterwards (provided parser.parse yields a tree).
C2_AutoParse ==
  \A s \in Slots :
    (/\ slots[s].pc = "done"
     /\ slots[s].tool \in QueryTools
     /\ argsOk(slots[s])
     /\ slots[s].tree0 = NoTree
     /\ slots[s].lang0
     /\ File(slots[s]) \in Readable
     /\ slots[s].mwErr # E_ParseNull)
    => /\ slots[s].outcome \in {"ok", E_Query}
       /\ slots[s].arg = "ok" => slots[s].outcome = "ok"
       /\ slots[s].reads = 1
       /\ slots[s].parses = 1
       /\ slots[s].mwErr = ""
       /\ isParsed(trees, File(slots[s]))
       /\ slots[s].used # NoTree

\* A query request on an uncached file has been answered after an auto-parse.
C2_Witness ==
  \E s \in Slots :
    /\ slots[s].pc = "done"
    /\ slots[s].tool \in QueryTools
    /\ slots[s].tree0 = NoTree
    /\ slots[s].lang0
    /\ slots[s].parses = 1
    /\ slots[s].outcome = "ok"
    /\ getTree(trees, File(slots[s])) = slots[s].used

(***************************************************************************)
(* C3.  Argument validation comes first.                                   *)
(***************************************************************************)
\* C3: a request that lacks a required argument reads no file and parses
\* nothing, and fails with the argument-validation error.
C3_Original ==
  \A s \in Slots :
    (slots[s].tool \in toolHandlers /\ ~argsOk(slots[s]))
    => /\ slots[s].reads = 0
       /\ slots[s].parses = 0
       /\ slots[s].pc = "done" => slots[s].outcome = argsError(slots[s])

(***************************************************************************)
(* C4.  Failures of the resolution are propagated.                         *)
(***************************************************************************)
\* C4: when the file read or the parse fails while a request's file is
\* resolved, the request fails with that very error.
C4_Original ==
  \A s \in Slots :
    (slots[s].pc = "done" /\ slots[s].mwErr # "")
    => slots[s].outcome = slots[s].mwErr

(***************************************************************************)
(* C5.  Unmapped extension.                                                *)
(***************************************************************************)
\* C5 (as stated): a search, list-elements or snippet-at request on an
\* uncached file whose extension is not in the extension table fails with
\* the UnsupportedExtension error.
C5_Original ==
  \A s \in Slots :
    (/\ slots[s].pc = "done"
     /\ slots[s].tool \in QueryTools
     /\ argsOk(slots[s])
     /\ slots[s].tree0 = NoTree
     /\ extname(File(slots[s])) \notin DOMAIN languageMap)
    => slots[s].outcome = E_Unsupported

\* C5 (amended): such a request fails at once with the generic "File not
\* found or not parsed" error, without a file read or a parse, and the tree
\* cache is unchanged.
C5_Unmapped ==
  [][\A s \in Slots :
       (/\ Arrives(s)
        /\ slots'[s].tool \in QueryTools
        /\ argsOk(slots'[s])
        /\ ~isParsed(trees, File(slots'[s]))
        /\ extname(File(slots'[s])) \notin DOMAIN languageMap)
       => /\ slots'[s].pc = "done"
          /\ slots'[s].outcome = E_NotParsed
          /\ slots'[s].reads = 0
          /\ slots'[s].parses = 0
          /\ trees' = trees]_vars

\* A query request on a file with an unmapped extension has failed.
C5_Witness ==
  \E s \in Slots :
    /\ slots[s].pc = "done"
    /\ slots[s].tool \in QueryTools
    /\ argsOk(slots[s])
    /\ extname(File(slots[s])) \notin DOMAIN languageMap
    /\ slots[s].outcome = E_NotParsed
    /\ slots[s].reads = 0

(***************************************************************************)
(* C6.  No grammar is loaded on demand.                                    *)
(***************************************************************************)
\* C6 (as stated): a search, list-elements or snippet-at request on a
\* readable, uncached file whose language was not loaded when the request
\* arrived succeeds all the same, the file being parsed and cached.
C6_Original ==
  \A s \in Slots :
    (/\ slots[s].pc = "done"
     /\ slots[s].tool \in QueryTools
     /\ argsOk(slots[s])
     /\ slots[s].tree0 = NoTree
     /\ ~slots[s].lang0
     /\ extname(File(slots[s])) \in DOMAIN languageMap
     /\ File(slots[s]) \in Readable
     /\ slots[s].mwErr # E_ParseNull)
    => /\ slots[s].outcome = "ok"
       /\ isParsed(trees, File(slots[s]))

\* C6 (amended): when the file read of a request returns and the language
\* to parse with is not in the registry, no grammar load is started: the
\* parseFile call fails with the language-not-loaded error (or with the
\* parser-not-initialised error when there is no parser), the registry and
\* the tree cache are unchanged; a search, list-elements or snippet-at
\* request then fails with "File not found or not parsed", an analyze
\* request with the parseFile error.
C6_NoLoadOnDemand ==
  [][\A s \in Slots :
       (/\ ReadReturns(s)
        /\ File(slots[s]) \in Readable
        /\ languages[ParseLanguage(s)] = NoGrammar)
       => /\ ParseFileCalled(s)
          /\ ResolveError(s) \in {E_ParserNotInit, E_LangNotLoaded}
          /\ loadCalls' = loadCalls
          /\ loads' = loads
          /\ languages' = languages
          /\ trees' = trees
          /\ (slots[s].pc = "mwRead" /\ slots[s].tool \in QueryTools
                /\ argsOk(slots[s]))
               => slots'[s].pc = "done" /\ slots'[s].outcome = E_NotParsed
          /\ slots[s].pc = "anRead" => slots'[s].pc = "done"]_vars

\* A query request has failed because the language of its file was not
\* loaded, although the parser was there and the file was read.
C6_Witness ==
  \E s \in Slots :
    /\ slots[s].pc = "done"
    /\ slots[s].tool \in QueryTools
    /\ slots[s].mwErr = E_LangNotLoaded
    /\ slots[s].outcome = E_NotParsed
    /\ languages[languageMap[extname(File(slots[s]))]] = NoGrammar
    /\ loadCalls[languageMap[extname(File(slots[s]))]] = 0

(***************************************************************************)
(* C7.  A failed resolve or parseFile leaves the cache alone.              *)
(***************************************************************************)
\* C7: whenever the file read or the parseFile call of a request fails
\* (unreadable file, parser not initialised, language not loaded, parser
\* returns no tree), the tree cache after the step is the tree cache before
\* it; an earlier entry of the same file is kept.
C7_FailureKeepsCache ==
  [][\A s \in Slots : (ReadReturns(s) /\ ResolveFailed(s)) => trees' = trees]_vars

\* An analyze request on a cached file has failed in parseFile and the
\* file's earlier entry is still in the cache.
C7_Witness ==
  \E s \in Slots :
    /\ slots[s].pc = "done"
    /\ slots[s].tool = AnalyzeTool
    /\ slots[s].parses >= 1
    /\ slots[s].outcome \in {E_LangNotLoaded, E_ParseNull}
    /\ slots[s].tree0 # NoTree
    /\ getTree(trees, File(slots[s])) = slots[s].tree0

(***************************************************************************)
(* C8.  A successful parseFile stores exactly the new tree.                *)
(***************************************************************************)
\* C8: after a successful parseFile(language, file, content), getTree(file)
\* is a new tree parsed from that content with the grammar registered for
\* that language; it replaces the earlier entry of the file, and the entry
\* of every other file is unchanged.
C8_ParseStores ==
  [][\A s \in Slots :
       (ParseFileCalled(s) /\ ~ResolveFailed(s))
       => /\ getTree(trees', File(slots[s])).content = slots'[s].content
          /\ getTree(trees', File(slots[s])).lang = ParseLanguage(s)
          /\ getTree(trees', File(slots[s])).gram = languages[ParseLanguage(s)]
          /\ getTree(trees', File(slots[s])).gram # NoGrammar
          /\ \A g \in Files : getTree(trees', File(slots[s])) # getTree(trees, g)
          /\ \A g \in Files \ {File(slots[s])} : getTree(trees', g) = getTree(trees, g)]_vars

\* An analyze request has replaced the cached tree of its file by the tree
\* of a different content.
C8_Witness ==
  \E s \in Slots :
    /\ slots[s].pc = "done"
    /\ slots[s].tool = AnalyzeTool
    /\ slots[s].outcome = "ok"
    /\ slots[s].tree0 # NoTree
    /\ getTree(trees, File(slots[s])) = slots[s].used
    /\ slots[s].used.content = slots[s].content
    /\ slots[s].used.content # slots[s].tree0.content

(***************************************************************************)
(* C9.  parseFile needs the parser and the language.                       *)
(***************************************************************************)
\* C9: a parseFile call made before any initializeParser call has completed
\* fails with the "Parser not initialized" error; one made after that, for a
\* language that no loadLanguage call has loaded, fails with the
\* language-not-loaded error.  So parseFile succeeds only after both.
C9_ParseNeedsInit ==
  [][\A s \in Slots :
       ParseFileCalled(s)
       => /\ ~initDone => ResolveError(s) = E_ParserNotInit
          /\ (initDone /\ ParseLanguage(s) \notin loaded)
               => ResolveError(s) = E_LangNotLoaded
          /\ ~ResolveFailed(s) => (initDone /\ ParseLanguage(s) \in loaded)]_vars

\* An analyze request has failed for an unloaded language although the
\* parser was initialised.
C9_Witness ==
  \E s \in Slots :
    /\ slots[s].pc = "done"
    /\ slots[s].tool = AnalyzeTool
    /\ slots[s].outcome = E_LangNotLoaded
    /\ initDone
    /\ slots[s].language \notin loaded

(***************************************************************************)
(* C10.  A grammar is loaded at most once.                                 *)
(***************************************************************************)
\* C10: for every language name, Language.load is called at most once,
\* whatever the interleaving of the load requests.
C10_Original == \A l \in LangNames : loadCalls[l] <= 1

(***************************************************************************)
(* C11.  A failed grammar load.                                            *)
(***************************************************************************)
\* C11: when Language.load fails for language L, the request that awaits
\* the load fails with an error naming L, L is not in the registry afterwards
\* and no registry entry changes; and the failure is not remembered: every
\* initialize request that names a language absent from the registry starts
\* a Language.load call for it, whether or not a load of it failed before.
C11_LoadFailure ==
  [][/\ \A ld \in loads :
          (LoadReturns(ld) /\ ld.lang \notin HasArtifact)
          => /\ languages' = languages
             /\ languages'[ld.lang] = NoGrammar
             /\ ld.owner # 0 =>
                  /\ slots'[ld.owner].pc = "done"
                  /\ slots'[ld.owner].outcome = loadError(ld.lang)
                  /\ slots'[ld.owner].outcome # loadError("typescript")
     /\ \A s \in Slots :
          StartsLoads(s)
          => \A i \in 1..Len(slots'[s].langs) :
               languages[slots'[s].langs[i]] = NoGrammar
               => loadCalls'[slots'[s].langs[i]] > loadCalls[slots'[s].langs[i]]]_vars

\* A load of a language without artifact has failed, the language is not in
\* the registry, and a second load of it has been started and is in flight.
C11_Witness ==
  /\ \E s \in Slots : slots[s].pc = "done" /\ slots[s].outcome = loadError("cobol")
  /\ languages["cobol"] = NoGrammar
  /\ loadCalls["cobol"] = 2
  /\ \E ld \in loads : ld.lang = "cobol" /\ ld.k = 2

(***************************************************************************)
(* C12.  Overlapping resolves of one file.                                 *)
(***************************************************************************)
\* C12: a request that waits for the file read of its auto-parse has missed
\* the cache when it arrived.  When its read returns and another request
\* has written the file's entry in the meantime, it parses all the same and
\* writes too (unless parser.parse yields no tree): the file's single entry
\* is then the tree written in this step, the newest one, parsed from the
\* content this request has read, and a search, list-elements or snippet-at
\* request completes on that tree.
C12_BothWrite ==
  [][\A s \in Slots :
       /\ slots[s].pc = "mwRead" => slots[s].tree0 = NoTree
       /\ (/\ slots[s].pc = "mwRead"
           /\ ReadReturns(s)
           /\ isParsed(trees, File(slots[s])))
          => /\ ParseFileCalled(s)
             /\ ResolveError(s) \in {"", E_ParseNull}
             /\ ResolveError(s) = "" =>
                  /\ getTree(trees', File(slots[s])) # getTree(trees, File(slots[s]))
                  /\ getTree(trees', File(slots[s])).id = treeSeq'
                  /\ getTree(trees', File(slots[s])).id > getTree(trees, File(slots[s])).id
                  /\ getTree(trees', File(slots[s])).content = slots'[s].content
                  /\ (slots[s].tool \in QueryTools /\ argsOk(slots[s])) =>
                       /\ slots'[s].pc = "done"
                       /\ slots'[s].outcome = "ok"
                       /\ slots'[s].used = getTree(trees', File(slots[s]))]_vars

\* The second of two overlapping query requests that both missed the cache
\* has completed on its own tree, which has replaced the tree of the first.
C12_Witness ==
  \E s \in Slots :
    /\ slots[s].pc = "done"
    /\ slots[s].tool \in QueryTools
    /\ slots[s].tree0 = NoTree
    /\ slots[s].parses = 1
    /\ slots[s].outcome = "ok"
    /\ treeSeq = 2
    /\ slots[s].used.id = 2
    /\ getTree(trees, File(slots[s])) = slots[s].used

(***************************************************************************)
(* C13.  No suspension between cache check and cache write.                *)
(***************************************************************************)
\* C13: while a request is between its check of the cache (isParsed) and
\* its write of the file's entry (parseFile), that is while it waits at the
\* fs.readFile of ensureFileIsParsed, every step taken is a step of that
\* request: no other request arrives or resumes.
C13_Original ==
  [][\A s \in Slots : slots[s].pc = "mwRead" => slots'[s] # slots[s]]_vars

(***************************************************************************)
(* C14.  Overlapping resolves of different files.                          *)
(***************************************************************************)
\* C14: whatever the interleaving of the requests of two files of different
\* languages, which share the one parser, a successful parse of a file
\* writes the entry that the request would write when run alone: the tree
\* of the content it has read, in the grammar registered for the language of
\* the file's extension; the entry of the other file is not touched, and
\* every entry in the cache is in the language of its file's extension.
C14_Independent ==
  [][\A s \in Slots :
       (ParseFileCalled(s) /\ ~ResolveFailed(s))
       => /\ getTree(trees', File(slots[s])).lang = languageMap[extname(File(slots[s]))]
          /\ getTree(trees', File(slots[s])).gram =
               languages[languageMap[extname(File(slots[s]))]]
          /\ getTree(trees', File(slots[s])).content = slots'[s].content
          /\ \A g \in Files \ {File(slots[s])} : getTree(trees', g) = getTree(trees, g)
          /\ \A g \in Files :
               isParsed(trees', g) => getTree(trees', g).lang = languageMap[extname(g)]]_vars

\* Two requests, one per file, have overlapped: the Python file's request
\* came second, while the first was in flight, and has written its tree
\* after the TypeScript file's tree was written.
C14_Witness ==
  /\ dispatched = 2
  /\ slots[2].pc = "done"
  /\ File(slots[2]) = F_b
  /\ slots[2].used = getTree(trees, F_b)
  /\ getTree(trees, F_b).lang = "python"
  /\ getTree(trees, F_b).id = 2
  /\ getTree(trees, F_a).lang = "typescript"
  /\ getTree(trees, F_a).id = 1
  /\ parserLang = "python"

(***************************************************************************)
(* C16.  The query is compiled by the grammar of the tree.                 *)
(***************************************************************************)
\* C16: whatever the interleaving of parses in different languages, a
\* search that finds its file in the cache compiles its query with the
\* grammar the cached tree was parsed with, which is the grammar of the
\* file's language, whatever language the shared parser was last set to: a
\* query that only the TypeScript grammar compiles succeeds exactly on a
\* TypeScript tree.
C16_QueryGrammar ==
  \A s \in Slots :
    (/\ slots[s].pc = "done"
     /\ slots[s].tool = "structural_code_search"
     /\ argsOk(slots[s])
     /\ slots[s].used # NoTree)
    => /\ slots[s].qlang = slots[s].used.lang
       /\ slots[s].qlang = languageMap[extname(File(slots[s]))]
       /\ slots[s].used.gram = languages[slots[s].qlang]
       /\ slots[s].outcome = "ok" <=> slots[s].qlang \in Compiles(slots[s].arg)

\* A search of the cached TypeScript file has compiled a TypeScript-only
\* query while the shared parser was set to Python.
C16_Witness ==
  \E s \in Slots :
    /\ slots[s].pc = "done"
    /\ slots[s].tool = "structural_code_search"
    /\ slots[s].arg = "ts"
    /\ slots[s].tree0 # NoTree
    /\ slots[s].reads = 0
    /\ slots[s].outcome = "ok"
    /\ slots[s].qlang = "typescript"
    /\ parserLang = "python"

(***************************************************************************)
(* C17.  An invalid query.                                                 *)
(***************************************************************************)
\* C17: a search whose query the grammar of the tree does not compile
\* (malformed, or written for another grammar) fails with the InvalidQuery
\* error that carries the text of the query.
C17_Original ==
  \A s \in Slots :
    (/\ slots[s].pc = "done"
     /\ slots[s].tool = "structural_code_search"
     /\ argsOk(slots[s])
     /\ slots[s].used # NoTree
     /\ slots[s].qlang \notin Compiles(slots[s].arg))
    => slots[s].outcome = invalidQuery(slots[s].arg)

(***************************************************************************)
(* C15.  search reports every capture.                                     *)
(***************************************************************************)
\* C15: the result of search has exactly one entry per capture the matcher
\* yields, in the matcher's order, the captures of one match not merged;
\* entry k carries the name of capture k and the text and the start and end
\* position of its node.  With no capture the result is the empty sequence.
C15_SearchCaptures ==
  answer.op = "search" =>
    /\ Len(answer.value) = Len(captures(doc, answer.arg))
    /\ \A k \in 1..Len(captures(doc, answer.arg)) :
         /\ answer.value[k].name = captures(doc, answer.arg)[k].name
         /\ answer.value[k].text = text(doc, captures(doc, answer.arg)[k].node)
         /\ answer.value[k].startPosition =
              startPosition(doc, captures(doc, answer.arg)[k].node)
         /\ answer.value[k].endPosition =
              endPosition(doc, captures(doc, answer.arg)[k].node)
    /\ captures(doc, answer.arg) = <<>> => answer.value = <<>>

\* The two methods of the class have been searched with a query of two
\* captures: four entries, the method and its name for each match.
C15_Witness ==
  /\ doc = D_class
  /\ answer.op = "search"
  /\ answer.arg = Q_methods
  /\ Len(answer.value) = 4
  /\ answer.value[1].name = "method" /\ answer.value[1].text = <<"a", ";">>
  /\ answer.value[2].name = "name" /\ answer.value[2].text = <<"a">>
  /\ answer.value[3].name = "method" /\ answer.value[3].text = <<"b", ">">>
  /\ answer.value[4].name = "name" /\ answer.value[4].text = <<"b">>

RECURSIVE onChain(_, _, _)
onChain(t, a, i) ==
  a = i \/ (t.nodes[i].parent # 0 /\ onChain(t, a, t.nodes[i].parent))

\* C19: for a position inside the tree, getContextualSnippet starts at the
\* deepest node at the position and returns the full text of the nearest
\* node on its parent chain, itself included, whose kind is a block kind
\* (the innermost block); when the chain has no block it returns the full
\* text of the root.
C19_NearestBlock ==
  (answer.op = "snippet" /\ contains(doc, 1, answer.arg)) =>
    LET n == answer.node
        blocks == {a \in 1..Len(doc.nodes) :
                     onChain(doc, a, n) /\ doc.nodes[a].type \in blockTypes}
    IN /\ n # 0
       /\ contains(doc, n, answer.arg)
       /\ \A j \in 1..Len(doc.nodes) :
            doc.nodes[j].parent = n => ~contains(doc, j, answer.arg)
       /\ ~answer.snippet.isNull
       /\ blocks = {} => answer.snippet.text = doc.content
       /\ \A b \in blocks :
            (\A a \in blocks : onChain(doc, a, b))
            => answer.snippet.text = text(doc, b)

\* The snippet at the arrow function inside a method inside a class is the
\* arrow function, the innermost of the three blocks.
C19_Witness ==
  /\ doc = D_class
  /\ answer.op = "snippet"
  /\ answer.arg = Point(0, 6)
  /\ doc.nodes[answer.node].type = "arrow_function"
  /\ answer.snippet.text = <<">">>
  /\ answer.value = <<">">>

(***************************************************************************)
(* C20.  The not-found sentinel.                                           *)
(***************************************************************************)
\* C20: a snippet request answers with the sentinel text exactly when no
\* node of the tree spans the position.
C20_Original ==
  answer.op = "snippet" =>
    (answer.value = Sentinel <=> ~contains(doc, 1, answer.arg))

(***************************************************************************)
(* C21.  A position outside every block.                                   *)
(***************************************************************************)
\* the position lies in the tree and in no node of a block kind
OutsideBlocks(t, pos) ==
  /\ contains(t, 1, pos)
  /\ \A i \in 1..Len(t.nodes) : t.nodes[i].type \in blockTypes => ~contains(t, i, pos)

\* C21 (as stated): a snippet request for a position that lies outside every
\* block-kind node is answered with the not-found sentinel.
C21_Original ==
  (answer.op = "snippet" /\ OutsideBlocks(doc, answer.arg))
  => answer.value = Sentinel

\* C21 (amended): such a request is answered with the full text of the
\* root, the whole file; the sentinel is the answer only when that text is
\* empty.
C21_OutsideBlock ==
  (answer.op = "snippet" /\ OutsideBlocks(doc, answer.arg))
  => /\ ~answer.snippet.isNull
     /\ answer.snippet.text = doc.content
     /\ answer.value = IF doc.content = <<>> THEN Sentinel ELSE doc.content

\* The snippet at a statement of a file without any block is the whole file.
C21_Witness ==
  /\ doc = D_flat
  /\ answer.op = "snippet"
  /\ answer.arg = Point(0, 1)
  /\ answer.value = <<"x", ";", "y">>

(***************************************************************************)
(* C22, C23.  The two serialisations of analyze.                           *)
(***************************************************************************)
\* the entries of a serialised tree in pre-order, each with the number of
\* its children
RECURSIVE flat(_)
RECURSIVE flatEach(_)
flatEach(entries) ==
  IF entries = <<>> THEN <<>> ELSE flat(Head(entries)) \o flatEach(Tail(entries))

flat(entry) ==
  IF "children" \in DOMAIN entry
  THEN <<[e |-> entry, kids |-> Len(entry.children)]>> \o flatEach(entry.children)
  ELSE <<[e |-> entry, kids |-> 0]>>

\* the nodes the thin tree keeps: named, no comment, and so are all ancestors
Kept(t) ==
  {i \in 1..Len(t.nodes) :
     \A a \in 1..Len(t.nodes) :
       onChain(t, a, i) => t.nodes[a].isNamed /\ t.nodes[a].type # "comment"}

\* the k-th smallest element of the set S of numbers
Nth(S, k) == CHOOSE i \in S : Cardinality({j \in S : j <= i}) = k

\* C22: the thin AST of analyze has exactly the nodes that are named and no
\* comment and whose ancestors all are, in document order and with the
\* children they keep; no comment and no unnamed node is in it.
C22_ThinAst ==
  answer.op = "analyze" =>
    LET ast == flatEach(answer.value.ast)
    IN /\ Len(ast) = Cardinality(Kept(doc))
       /\ \A k \in 1..Len(ast) :
            LET i == Nth(Kept(doc), k)
            IN /\ ast[k].e.type = doc.nodes[i].type
               /\ ast[k].e.startPosition = startPosition(doc, i)
               /\ ast[k].e.endPosition = endPosition(doc, i)
               /\ ast[k].kids =
                    Cardinality({j \in Kept(doc) : doc.nodes[j].parent = i})
               /\ ast[k].e.type # "comment"
               /\ doc.nodes[i].isNamed

\* The thin tree of the file with a comment: the comment and its content are
\* dropped, the statement and its identifier are kept.
C22_Witness ==
  /\ doc = D_comment
  /\ answer.op = "analyze"
  /\ Len(flatEach(answer.value.ast)) = 3
  /\ flatEach(answer.value.ast)[1].kids = 1
  /\ flatEach(answer.value.ast)[3].e.type = "identifier"

\* C23: the cst of analyze has exactly one entry per node of the tree,
\* unnamed and comment nodes included, in document order and with as many
\* children as the node has, each with the node's kind, text and positions.
C23_FullCst ==
  answer.op = "analyze" =>
    LET cst == flat(answer.value.cst)
    IN /\ Len(cst) = Len(doc.nodes)
       /\ \A i \in 1..Len(doc.nodes) :
            /\ cst[i].e.type = doc.nodes[i].type
            /\ cst[i].e.text = text(doc, i)
            /\ cst[i].e.startPosition = startPosition(doc, i)
            /\ cst[i].e.endPosition = endPosition(doc, i)
            /\ cst[i].kids = Cardinality({j \in 1..Len(doc.nodes) : doc.nodes[j].parent = i})

\* The cst of the class: ten entries, the closing brace among them.
C23_Witness ==
  /\ doc = D_class
  /\ answer.op = "analyze"
  /\ Len(flat(answer.value.cst)) = 10
  /\ flat(answer.value.cst)[10].e.type = "}"
  /\ flat(answer.value.cst)[4].kids = 3

(***************************************************************************)
(* C24, C28.  analyze parses what it read with the language it was given.  *)
(***************************************************************************)
\* slot s holds an analyze request that has just completed with a result
Analyzed(s) ==
  /\ slots[s].pc = "done"
  /\ slots[s].tool = AnalyzeTool
  /\ slots[s].outcome = "ok"

\* C24: the tree a successful analyze serialises is the parse, with the
\* language of the request, of the content the request read, whatever tree
\* the cache held when the request arrived and whatever ran in between: the
\* result is a function of (language, content).
C24_Deterministic ==
  \A s \in Slots : Analyzed(s) =>
    /\ slots[s].used.lang = slots[s].language
    /\ slots[s].used.content = slots[s].content
    /\ slots[s].used # slots[s].tree0

\* An analyze of a.ts as Python that found a tree of another content and
\* another language in the cache, and serialises the parse of what it read.
C24_Witness ==
  \E s \in Slots :
    /\ Analyzed(s)
    /\ slots[s].tree0 # NoTree
    /\ slots[s].tree0.content = "c1"
    /\ slots[s].tree0.lang = "typescript"
    /\ slots[s].used.content = "c2"
    /\ slots[s].used.lang = "python"

\* C28: when an analyze request has completed with a result, the cache entry
\* of its file is a tree parsed with the grammar registered for the language
\* of the request, whatever the extension of the file maps to.
C28_ExplicitLanguage ==
  \A s \in Slots : Analyzed(s) =>
    /\ getTree(trees, File(slots[s])) # NoTree
    /\ getTree(trees, File(slots[s])).lang = slots[s].language
    /\ getTree(trees, File(slots[s])).gram = languages[slots[s].language]

\* a.ts analysed as Python
C28_Witness ==
  \E s \in Slots :
    /\ Analyzed(s)
    /\ File(slots[s]) = F_a
    /\ getTree(trees, F_a).lang = "python"

\* n.txt, of no known extension, analysed as TypeScript
C28_WitnessNone ==
  \E s \in Slots :
    Analyzed(s) /\ File(slots[s]) = F_n /\ getTree(trees, F_n).lang = "typescript"

(***************************************************************************)
(* C26.  Two strings for one file address one cache entry.                 *)
(***************************************************************************)
\* C26: a.ts can be named by its absolute path and by a relative one.  A
\* request that arrives under either string when the entry of the absolute
\* path is filled is a cache hit on that entry; and a request under either
\* string that reads and parses the file writes the entry of the absolute
\* path and no other, and its operation uses that entry.
C26_SameEntry ==
  [][\A s \in Slots :
       /\ (/\ Arrives(s)
           /\ slots'[s].path \in {F_a, R_a}
           /\ getTree(trees, F_a) # NoTree)
          => /\ slots'[s].pc = "done"
             /\ slots'[s].reads = 0
             /\ trees' = trees
             /\ slots'[s].outcome = "ok" => slots'[s].used = getTree(trees, F_a)
       /\ (/\ ReadReturns(s)
           /\ slots[s].path \in {F_a, R_a})
          => /\ \A g \in Paths \ {F_a} : getTree(trees', g) = getTree(trees, g)
             /\ slots'[s].mwErr = "" => getTree(trees', F_a) # getTree(trees, F_a)
             /\ slots'[s].outcome = "ok" => slots'[s].used = getTree(trees', F_a)]_vars

\* A search that named a.ts by the relative path has been served, without a
\* read, from the entry of the absolute path.
C26_Witness ==
  \E s \in Slots :
    /\ slots[s].pc = "done"
    /\ slots[s].path = R_a
    /\ slots[s].reads = 0
    /\ slots[s].outcome = "ok"
    /\ slots[s].used = getTree(trees, F_a)
    /\ getTree(trees, F_a) # NoTree
    /\ getTree(trees, R_a) = NoTree

\* A search that named a.ts by the relative path has parsed the file into the
\* entry of the absolute path and used it.
C26_WitnessParse ==
  \E s \in Slots :
    /\ slots[s].pc = "done"
    /\ slots[s].path = R_a
    /\ slots[s].reads = 1
    /\ slots[s].outcome = "ok"
    /\ slots[s].used = getTree(trees, F_a)

(***************************************************************************)
(* C29, C30.  initialize.                                                  *)
(***************************************************************************)
\* C29: an initialize request whose languages argument is missing or is no
\* array fails on arrival with "The 'languages' parameter must be an array
\* of strings." and changes nothing: the parser, the grammar registry, the
\* loads in flight and the tree cache are as they were.
C29_MissingLanguages ==
  [][\A s \in Slots :
       (/\ Arrives(s)
        /\ slots'[s].tool = InitTool
        /\ ~slots'[s].hasLangs)
       => /\ slots'[s].pc = "done"
          /\ slots'[s].outcome = "The 'languages' parameter must be an array of strings."
          /\ parser' = parser
          /\ parserSeq' = parserSeq
          /\ languages' = languages
          /\ loads' = loads
          /\ loadCalls' = loadCalls
          /\ trees' = trees]_vars

\* An initialize request with a string for its languages has failed on a
\* server that has no parser yet and has started no load.
C29_Witness ==
  \E s \in Slots :
    /\ slots[s].pc = "done"
    /\ slots[s].tool = InitTool
    /\ ~slots[s].hasLangs
    /\ slots[s].langs = <<"typescript">>
    /\ slots[s].outcome = E_Languages
    /\ parser = NoParser
    /\ \A l \in LangNames : loadCalls[l] = 0

\* this step completes the initialize request of slot s with a result
InitSucceeds(s) ==
  /\ slots'[s] # slots[s]
  /\ slots'[s].pc = "done"
  /\ slots'[s].tool = InitTool
  /\ slots'[s].outcome = "ok"

\* C30: when an initialize request with a list of languages completes with
\* a result, the parser is initialised and every language of the list is in
\* the registry; a request with the empty list completes with a result as
\* soon as the parser is there, and starts no grammar load.
C30_InitSuccess ==
  [][\A s \in Slots :
       /\ InitSucceeds(s) =>
            /\ parser' # NoParser
            /\ \A i \in 1..Len(slots'[s].langs) :
                 languages'[slots'[s].langs[i]] # NoGrammar
       /\ (InitSucceeds(s) /\ slots'[s].langs = <<>>) =>
            /\ loadCalls' = loadCalls
            /\ loads' = loads
       /\ (/\ slots'[s].tool = InitTool
           /\ slots'[s].hasLangs
           /\ slots'[s].langs = <<>>
           /\ parser' # NoParser
           /\ slots'[s] # slots[s])
          => InitSucceeds(s)]_vars

\* An initialize request for TypeScript and Python has completed with a
\* result after its two loads, and both grammars are registered.
C30_Witness ==
  \E s \in Slots :
    /\ slots[s].pc = "done"
    /\ slots[s].tool = InitTool
    /\ slots[s].langs = <<"typescript", "python">>
    /\ slots[s].outcome = "ok"
    /\ parser # NoParser
    /\ languages["typescript"] # NoGrammar
    /\ languages["python"] # NoGrammar
    /\ loadCalls["typescript"] = 1
    /\ loadCalls["python"] = 1

\* An initialize request with the empty list has completed with a result:
\* the parser is there and no load was ever started.
C30_WitnessEmpty ==
  \E s \in Slots :
    /\ slots[s].pc = "done"
    /\ slots[s].tool = InitTool
    /\ slots[s].hasLangs
    /\ slots[s].langs = <<>>
    /\ slots[s].outcome = "ok"
    /\ parser # NoParser
    /\ \A l \in LangNames : loadCalls[l] = 0

(***************************************************************************)
(* C27.  The extension table.                                              *)
(***************************************************************************)
\* the extension table as the specification states it
ExtensionTable ==
  {<<".ts", "typescript">>, <<".tsx", "typescript">>,
   <<".js", "javascript">>, <<".jsx", "javascript">>,
   <<".py", "python">>, <<".go", "go">>, <<".java", "java">>}

\* C27: for every entry of the extension table, a request without explicit
\* language for an uncached file of that extension reads the file, and when
\* the read returns parseFile is called and the tree it stores is one of the
\* grammar registered for the mapped language.
C27_ExtensionTable ==
  [][\A s \in Slots, e \in ExtensionTable :
       /\ (/\ Arrives(s)
           /\ slots'[s].tool \in QueryTools
           /\ slots'[s].path \in Files
           /\ slots'[s].path.ext = e[1]
           /\ getTree(trees, slots'[s].path) = NoTree)
          => /\ slots'[s].pc = "mwRead"
             /\ slots'[s].reads = 1
       /\ (/\ ReadReturns(s)
           /\ slots[s].pc = "mwRead"
           /\ slots[s].path \in Readable
           /\ slots[s].path.ext = e[1])
          => /\ slots'[s].parses = 1
             /\ slots'[s].mwErr \in {"", E_ParseNull}
             /\ slots'[s].mwErr = "" =>
                  /\ getTree(trees', slots[s].path).lang = e[2]
                  /\ getTree(trees', slots[s].path).gram = languages[e[2]]
                  /\ parserLang' = e[2]]_vars

\* Three files have been parsed on demand: the .tsx file as TypeScript, the
\* .jsx file as JavaScript and the .java file as Java.
C27_Witness ==
  /\ getTree(trees, Path(TRUE, "e", ".tsx")).lang = "typescript"
  /\ getTree(trees, Path(TRUE, "e", ".jsx")).lang = "javascript"
  /\ getTree(trees, Path(TRUE, "e", ".java")).lang = "java"

\* Every extension of the table has been parsed on demand by some request.
C27_WitnessTs == getTree(trees, F_a).lang = "typescript"
C27_WitnessJs == getTree(trees, Path(TRUE, "e", ".js")).lang = "javascript"
C27_WitnessPy == getTree(trees, F_b).lang = "python"
C27_WitnessGo == getTree(trees, Path(TRUE, "e", ".go")).lang = "go"

(***************************************************************************)
(* C25.  Every request completes.                                          *)
(***************************************************************************)
\* the request of slot s awaits a file read, the parser or a grammar load
Waiting(s) == slots[s].pc \in {"mwRead", "initWait", "loadWait", "anRead"}

\* C25: a request that has been dispatched and awaits a file read, the
\* parser or a grammar load completes in the end, with a result or with a
\* failure, whatever the other requests do meanwhile, provided each of the
\* awaited calls returns.
C25_Completes ==
  \A s \in Slots :
    Waiting(s) ~> (slots[s].pc = "done" /\ slots[s].outcome # "")

\* An analyze request has gone through both of its file reads and has
\* completed, and another request is still waiting.
C25_Witness ==
  \E s, o \in Slots :
    /\ slots[s].pc = "done"
    /\ slots[s].tool = AnalyzeTool
    /\ slots[s].reads = 2
    /\ slots[s].outcome = "ok"
    /\ Waiting(o)

C31_WitnessSuccess ==
  \E s \in Slots :
    /\ slots[s].pc = "done"
    /\ slots[s].tool = "structural_code_search"
    /\ slots[s].reads = 1
    /\ slots[s].events = 1
    /\ slots[s].status = "success"
    /\ slots[s].tokens = 2

(***************************************************************************)
(* C32.  analyze serialises the tree of the content it counted.            *)
(***************************************************************************)
\* C32: the tree a completed analyze request has serialised is the parse of
\* the content the request read (the content whose tokens it reports as
\* originalTokenCount): it is the newest tree of the server and the cache
\* entry of the file, whatever other requests on the same file wrote between
\* the arrival of the request and its own parse.
C32_OwnParse ==
  \A s \in Slots : Analyzed(s) =>
    /\ slots[s].used.content = slots[s].content
    /\ slots[s].used.id = treeSeq
    /\ slots[s].used = getTree(trees, File(slots[s]))

\* An analyze request of a.ts has completed on what it read, "c2", after
\* the entry of the file, which held "c1" when the request arrived, was
\* written by others too, and while another request on a.ts awaits its read.
C32_Witness ==
  \E s, o \in Slots :
    /\ Analyzed(s)
    /\ File(slots[s]) = F_a
    /\ slots[s].tree0 # NoTree
    /\ slots[s].tree0.content = "c1"
    /\ slots[s].used.content = "c2"
    /\ slots[s].used.id > slots[s].tree0.id + 1
    /\ slots[o].pc = "anRead"
    /\ slots[o].path = F_a

(***************************************************************************)
(* C33.  A failed initialize is not rolled back.                           *)
(***************************************************************************)
\* C33: when a load of an initialize request fails, the request fails with
\* the load error, and nothing is undone: the parser and the registry are as
\* they were and the other loads stay in flight; and a load that succeeds
\* registers its grammar, also when the request that started it has failed
\* already.
C33_NoRollback ==
  [][\A ld \in loads : LoadReturns(ld) =>
       /\ ld.lang \in HasArtifact => languages'[ld.lang] # NoGrammar
       /\ (ld.lang \notin HasArtifact /\ ld.owner # 0) =>
            /\ slots'[ld.owner].pc = "done"
            /\ slots'[ld.owner].outcome = loadError(ld.lang)
            /\ parser' = parser
            /\ parser # NoParser
            /\ languages' = languages
            /\ \A o \in loads \ {ld} :
                 \E n \in loads' : n.lang = o.lang /\ n.k = o.k]_vars

\* The one request was an initialize for TypeScript and a language without
\* grammar: it is over, TypeScript is registered and the parser is there.
C33_Witness ==
  /\ dispatched = 1
  /\ loadCalls["cobol"] = 1
  /\ loadCalls["typescript"] = 1
  /\ loads = {}
  /\ languages["typescript"] # NoGrammar
  /\ languages["cobol"] = NoGrammar
  /\ parser # NoParser

\* The request has failed and its TypeScript load is still in flight.
C33_WitnessOrphan ==
  \E s \in Slots :
    /\ slots[s].pc = "done"
    /\ slots[s].outcome = loadError("cobol")
    /\ languages["typescript"] = NoGrammar
    /\ \E ld \in loads : ld.lang = "typescript" /\ ld.owner = 0

(***************************************************************************)
(* C34.  Nothing is evicted.                                               *)
(***************************************************************************)
\* C34: in every step, every language that is in the registry stays in it
\* and every file that has an entry in the tree cache keeps one: the two sets
\* only grow.
C34_OnlyGrow ==
  [][/\ \A l \in LangNames : languages[l] # NoGrammar => languages'[l] # NoGrammar
     /\ \A f \in Paths : isParsed(trees, f) => isParsed(trees', f)]_vars

\* A file is cached, its grammar is registered, and a later request on the
\* file has failed in its parse: the entry is still there.
C34_Witness ==
  \E s \in Slots :
    /\ slots[s].pc = "done"
    /\ slots[s].tool = AnalyzeTool
    /\ slots[s].outcome = E_ParseNull
    /\ slots[s].tree0 # NoTree
    /\ isParsed(trees, F_a)
    /\ languages["typescript"] # NoGrammar

C35_SameInstance ==
  \A f \in Paths : isParsed(trees, f) =>
    languages[getTree(trees, f).lang] = getTree(trees, f).gram

C36_Original == [][parser # NoParser => parser' = parser]_vars

(***************************************************************************)
(* C37.  A tool without handler.                                           *)
(***************************************************************************)
\* the names of the dispatch table, as handlers.ts lists them
Registered ==
  {"initialize_treesitter_context", "structural_code_search",
   "list_code_elements_by_kind", "get_contextual_code_snippets",
   "validate_syntax_token_counts"}

\* C37: a request that names a tool outside the dispatch table fails on
\* arrival with the 'Unknown tool' error, also when it carries a path: no
\* file read is started, nothing is parsed or loaded, no usage event is
\* emitted, and the parser, the registry and the tree cache are unchanged.
C37_UnknownTool ==
  [][\A s \in Slots :
       (Arrives(s) /\ slots'[s].tool \notin Registered)
       => /\ slots'[s].pc = "done"
          /\ slots'[s].outcome = "Unknown tool"
          /\ slots'[s].reads = 0
          /\ slots'[s].parses = 0
          /\ slots'[s].events = 0
          /\ parser' = parser
          /\ parserLang' = parserLang
          /\ languages' = languages
          /\ loads' = loads
          /\ loadCalls' = loadCalls
          /\ trees' = trees]_vars

\* A parse_file request for a.ts, which is not cached and whose grammar is
\* registered, has failed as unknown, and a.ts is still not cached.
C37_Witness ==
  \E s \in Slots :
    /\ slots[s].pc = "done"
    /\ slots[s].tool = "parse_file"
    /\ slots[s].path = F_a
    /\ slots[s].outcome = E_Unknown
    /\ slots[s].reads = 0
    /\ ~isParsed(trees, F_a)
    /\ parser # NoParser
    /\ languages["typescript"] # NoGrammar

(***************************************************************************)
(* C38.  The tool listing and the dispatch table.                          *)
(***************************************************************************)
\* C38: a completed call of a tool that the listing names has not failed
\* with 'Unknown tool', and a tool that has a handler is named by the
\* listing.
C38_Original ==
  \A s \in Slots : slots[s].pc = "done" =>
    /\ slots[s].tool \in toolSchemas => slots[s].outcome # E_Unknown
    /\ slots[s].tool \in toolHandlers => slots[s].tool \in toolSchemas

\* the first half alone: a listed tool is never unknown
C38_ListedHasHandler ==
  \A s \in Slots :
    (slots[s].pc = "done" /\ slots[s].tool \in toolSchemas) => slots[s].outcome # E_Unknown

\* the second half alone: a tool that is handled is listed
C38_HandledIsListed ==
  \A s \in Slots :
    (slots[s].pc = "done" /\ slots[s].outcome # E_Unknown) => slots[s].tool \in toolSchemas

====
